---- MODULE Spec2Model ----
(***************************************************************************)
(* Model of the model-training notebook of AI-PredictiveMaintenance        *)
(* (src/src/Notebooks/ModelTraining.ipynb, and the older copy of it that   *)
(* is embedded in src/src/build.proj).  The notebook is a flat script of   *)
(* cells; every code cell is one action, the notebook's global variables   *)
(* are the state, and pc is the last stage that completed.                 *)
(***************************************************************************)
EXTENDS Integers, Sequences, FiniteSets, TLC

VARIABLES
    pc,             \* last completed stage of the run, or "aborted"
    err,            \* the stage whose cell raised, "" when none did
    run,            \* 1 for the first run of the pipeline, 2 for the re-run
    cfg,            \* w, lookback, test_size, time_split
    dir,            \* data_dir/features: the set of csv files
    rng,            \* permutations drawn so far by RandomState(seed), by length
    combined_df,    \* pd.concat of the files
    data,           \* the data set handed to the split cell
    train, test,    \* the two partitions
    X_train, Y_train, X_test, Y_test,
    X_train_res, Y_train_res,
    clf,            \* the fitted classifier: feature row -> label
    Y_predictions, cm, accuracy,
    prev,           \* what the first run left: partitions, counts, files
    model_pkl,      \* the file model.pkl: {} when absent, else {its content}
    sample_json,    \* the file sample.json: {} when absent, else {its content}
    log             \* the warnings the run has emitted

vars == <<pc, err, run, cfg, dir, rng, combined_df, data, train, test,
          X_train, Y_train, X_test, Y_test, X_train_res, Y_train_res,
          clf, Y_predictions, cm, accuracy, prev, model_pkl, sample_json,
          log>>

----------------------------------------------------------------------------
(* Bounds of the model *)

MaxLen == 3         \* longest run (sequence of cycles) of one machine
MaxW == 2           \* largest future horizon tried
MaxLookback == 1    \* largest lookback tried

Machines == {1, 2}
TestSizes == {<<1, 5>>, <<1, 2>>}       \* test_size as a fraction <<num, den>>

(* Program constants *)

seed == 42
NaN == -1           \* pandas' missing number; every real rul is >= 0

----------------------------------------------------------------------------
(* pandas data frames: an index (a column name, "" for the default        *)
(* RangeIndex), the set of column names, and the rows in order; a row maps *)
(* the columns and the named index to values.                              *)

Range(s) == {s[i] : i \in 1..Len(s)}

Min(S) == CHOOSE x \in S : \A y \in S : x <= y
Max(S) == CHOOSE x \in S : \A y \in S : x >= y

RowKeys(df) == df.cols \cup (IF df.index = "" THEN {} ELSE {df.index})

Restrict(r, S) == [c \in S |-> r[c]]

EmptyDF == [index |-> "", cols |-> {}, rows |-> <<>>]

DataFrame(cols, rows) == [index |-> "", cols |-> cols, rows |-> rows]

(* df[mask]: the rows whose place in the boolean mask holds TRUE. *)
RECURSIVE Masked(_, _)
Masked(rows, mask) ==
    IF rows = <<>> THEN <<>>
    ELSE LET n == Len(rows)
             init == Masked(SubSeq(rows, 1, n - 1), SubSeq(mask, 1, n - 1))
         IN  IF mask[n] THEN Append(init, rows[n]) ELSE init

filter(df, mask) == [df EXCEPT !.rows = Masked(df.rows, mask)]

CanSetIndex(df, c) == c \in df.cols

set_index(df, c) ==
    [index |-> c,
     cols |-> df.cols \ {c},
     rows |-> [i \in 1..Len(df.rows) |-> Restrict(df.rows[i], df.cols)]]

RECURSIVE InsertSorted(_, _, _)
InsertSorted(r, s, k) ==
    IF s = <<>> THEN <<r>>
    ELSE IF r[k] < Head(s)[k] THEN <<r>> \o s
    ELSE <<Head(s)>> \o InsertSorted(r, Tail(s), k)

RECURSIVE SortRows(_, _)
SortRows(s, k) ==
    IF s = <<>> THEN <<>> ELSE InsertSorted(Head(s), SortRows(Tail(s), k), k)

sort_index(df) == [df EXCEPT !.rows = SortRows(df.rows, df.index)]

reset_index(df) ==
    [index |-> "", cols |-> RowKeys(df), rows |-> df.rows]

reset_index_drop(df) ==
    [index |-> "",
     cols |-> df.cols,
     rows |-> [i \in 1..Len(df.rows) |-> Restrict(df.rows[i], df.cols)]]

drop(df, cs) ==
    [index |-> df.index,
     cols |-> df.cols \ cs,
     rows |-> [i \in 1..Len(df.rows) |->
                  Restrict(df.rows[i], RowKeys(df) \ cs)]]

RECURSIVE Unique(_)
Unique(s) ==
    IF s = <<>> THEN <<>>
    ELSE LET u == Unique(SubSeq(s, 1, Len(s) - 1))
         IN  IF s[Len(s)] \in Range(u) THEN u ELSE Append(u, s[Len(s)])

Column(df, c) == [i \in 1..Len(df.rows) |-> df.rows[i][c]]

----------------------------------------------------------------------------
(* Reading input data *)

RECURSIVE concat(_)
concat(dfs) ==
    IF dfs = <<>> THEN <<>> ELSE Head(dfs) \o concat(Tail(dfs))

Orderings(S) ==
    {o \in [1..Cardinality(S) -> S] : \A i, j \in 1..Cardinality(S) :
        i # j => o[i] # o[j]}

AllColumns ==
    {"entryID", "machineID", "cycle", "sequenceID", "rul", "failure", "s1"}

(* One csv file per machine: a run of len cycles that ends in the failure  *)
(* kind, or that is censored (kind = "", rul missing).  Telemetry of the   *)
(* machines is interleaved in time, and entryID numbers it in that order.  *)
FileOf(m, len, kind) ==
    [name |-> m,
     cols |-> AllColumns,
     rows |-> [c \in 1..len |->
                  [entryID |-> (c - 1) * Cardinality(Machines) + m,
                   machineID |-> m,
                   cycle |-> c,
                   sequenceID |-> 1,
                   rul |-> IF kind = "" THEN NaN ELSE len - c,
                   failure |-> kind,
                   s1 |-> 0]]]

FailureCodes == {"F1", "F2"}

Directories ==
    {{FileOf(m, l[m], k[m]) : m \in Machines} :
        l \in [Machines -> 1..MaxLen], k \in [Machines -> FailureCodes \cup {""}]}

(* Mutant of read_concat: rows that occur more than once are kept once. *)
read_concat_dedup(files) ==
    LET cs == UNION {files[i].cols : i \in 1..Len(files)}
        fill(r) == [c \in cs |-> IF c \in DOMAIN r THEN r[c] ELSE NaN]
    IN  DataFrame(cs, Unique(concat([i \in 1..Len(files) |->
               [j \in 1..Len(files[i].rows) |-> fill(files[i].rows[j])]])))

(* pd.concat(dfs, ignore_index=True): the rows of the frames one after the *)
(* other under the union of their columns; a column that a frame lacks is  *)
(* filled with NaN.                                                        *)
read_concat(files) ==
    LET cs == UNION {files[i].cols : i \in 1..Len(files)}
        fill(r) == [c \in cs |-> IF c \in DOMAIN r THEN r[c] ELSE NaN]
    IN  DataFrame(cs, concat([i \in 1..Len(files) |->
               [j \in 1..Len(files[i].rows) |-> fill(files[i].rows[j])]]))

----------------------------------------------------------------------------
(* Elimination of possible false negatives *)

NullRulRows(df, m) ==
    {i \in 1..Len(df.rows) :
        df.rows[i]["machineID"] = m /\ df.rows[i]["rul"] = NaN}

(* The joined max_cycle of machine m: {} stands for NaN (no group). *)
max_cycles(df, m, w) ==
    LET g == NullRulRows(df, m)
    IN  IF g = {} THEN {}
        ELSE {Max({df.rows[i]["cycle"] : i \in g}) - Min({Cardinality(g), w})}

prefilter(df, w) ==
    filter(df, [i \in 1..Len(df.rows) |->
        LET mc == max_cycles(df, df.rows[i]["machineID"], w)
        IN  mc = {} \/ \E x \in mc : df.rows[i]["cycle"] <= x])

----------------------------------------------------------------------------
(* Train/test split *)

(* sklearn's _validate_shuffle_split for a float test_size:               *)
(* n_test = ceil(test_size * n), n_train = n - n_test.                     *)
n_test(n, ts) == (n * ts[1] + ts[2] - 1) \div ts[2]
n_train(n, ts) == n - n_test(n, ts)

Head_n(df, k) == [df EXCEPT !.rows = SubSeq(df.rows, 1, k)]
Tail_n(df, k) == [df EXCEPT !.rows = SubSeq(df.rows, k + 1, Len(df.rows))]

(* Mutant of min_cycles: the lookback is added. *)
min_cycles_added(te, m, lookback) ==
    LET g == {i \in 1..Len(te.rows) : te.rows[i]["machineID"] = m}
    IN  IF g = {} THEN {}
        ELSE {Min({te.rows[i]["cycle"] : i \in g}) + lookback}

(* Mutant of min_cycles: one cycle more than the lookback is subtracted. *)
min_cycles_one_more(te, m, lookback) ==
    LET g == {i \in 1..Len(te.rows) : te.rows[i]["machineID"] = m}
    IN  IF g = {} THEN {}
        ELSE {Min({te.rows[i]["cycle"] : i \in g}) - lookback - 1}

(* Mutant of min_cycles: the lookback is not subtracted. *)
min_cycles_no_lookback(te, m, lookback) ==
    LET g == {i \in 1..Len(te.rows) : te.rows[i]["machineID"] = m}
    IN  IF g = {} THEN {}
        ELSE {Min({te.rows[i]["cycle"] : i \in g})}

(* min_cycles of machine m: {} stands for NaN (m has no test record). *)
min_cycles(te, m, lookback) ==
    LET g == {i \in 1..Len(te.rows) : te.rows[i]["machineID"] = m}
    IN  IF g = {} THEN {}
        ELSE {Min({te.rows[i]["cycle"] : i \in g}) - lookback}

(* Mutant of exclude: the records of machines without a test record, whose *)
(* joined max_cycle is NaN, are dropped.                                   *)
exclude_drop_nan(tr, te, lookback) ==
    filter(tr, [i \in 1..Len(tr.rows) |->
        LET mc == min_cycles(te, tr.rows[i]["machineID"], lookback)
        IN  \E x \in mc : tr.rows[i]["cycle"] < x])

(* Mutant of exclude: the record at the boundary cycle is kept. *)
exclude_inclusive(tr, te, lookback) ==
    filter(tr, [i \in 1..Len(tr.rows) |->
        LET mc == min_cycles(te, tr.rows[i]["machineID"], lookback)
        IN  mc = {} \/ \E x \in mc : tr.rows[i]["cycle"] <= x])

exclude(tr, te, lookback) ==
    filter(tr, [i \in 1..Len(tr.rows) |->
        LET mc == min_cycles(te, tr.rows[i]["machineID"], lookback)
        IN  mc = {} \/ \E x \in mc : tr.rows[i]["cycle"] < x])

(* Mutant of time_sorted: the data set is cut in the order it was read. *)
time_unsorted(df) == set_index(df, "entryID")

time_sorted(df) == sort_index(set_index(df, "entryID"))

time_test(df, ts) == Tail_n(time_sorted(df), n_train(Len(df.rows), ts))

time_train(df, ts, lookback) ==
    LET d == time_sorted(df)
        tr == Head_n(d, n_train(Len(df.rows), ts))
    IN  set_index(exclude(reset_index(tr), reset_index(time_test(df, ts)),
                          lookback), "entryID")

unique_assets(df) == Unique(Column(reset_index(df), "machineID"))

Perms(n) ==
    {p \in [1..n -> 1..n] : \A i, j \in 1..n : i # j => p[i] # p[j]}

(* ShuffleSplit: the first n_test places of the permutation are the test   *)
(* side, the following n_train the train side.                             *)
test_assets(ua, p, ts) == {ua[p[i]] : i \in 1..n_test(Len(ua), ts)}
(* Mutant of train_assets: the first train asset is left out. *)
train_assets_short(ua, p, ts) ==
    {ua[p[i]] : i \in (n_test(Len(ua), ts) + 2)..Len(ua)}

(* Mutant of train_assets: the last test asset is a train asset too. *)
train_assets_overlap(ua, p, ts) ==
    {ua[p[i]] : i \in n_test(Len(ua), ts)..Len(ua)}

train_assets(ua, p, ts) ==
    {ua[p[i]] : i \in (n_test(Len(ua), ts) + 1)..Len(ua)}

(* Mutant of isin: the asset identifiers are matched against entryID. *)
isin_entry(df, S) ==
    filter(df, [i \in 1..Len(df.rows) |-> df.rows[i]["entryID"] \in S])

isin(df, S) ==
    filter(df, [i \in 1..Len(df.rows) |-> df.rows[i]["machineID"] \in S])

asset_train(df, p, ts) ==
    set_index(isin(df, train_assets(unique_assets(df), p, ts)), "entryID")
asset_test(df, p, ts) ==
    set_index(isin(df, test_assets(unique_assets(df), p, ts)), "entryID")

----------------------------------------------------------------------------
(* Label assignment *)

(* Mutant of columns_to_drop: machineID stays among the features. *)
columns_to_drop_short == {"cycle", "failure", "rul", "sequenceID"}

columns_to_drop == {"cycle", "failure", "rul", "sequenceID", "machineID"}

(* Python truth value of a float: only 0 is false, NaN is true. *)
truthy(x) == x # 0

(* Mutant of lt: the horizon test is not strict. *)
le(a, b) == a # NaN /\ b # NaN /\ a <= b

(* Float comparison: every comparison with NaN is False. *)
lt(a, b) == a # NaN /\ b # NaN /\ a < b

f(row, w) ==
    IF truthy(row["rul"]) /\ lt(row["rul"], w) THEN row["failure"] ELSE ""

CanXY(df) == columns_to_drop \subseteq df.cols

xy_X(df) == drop(reset_index_drop(df), columns_to_drop)
xy_Y(df, w) == [i \in 1..Len(df.rows) |-> f(df.rows[i], w)]

----------------------------------------------------------------------------
(* Correction of data imbalance: SMOTE(random_state=seed).fit_sample *)

k_neighbors == 5

ClassOrder == <<"", "F1", "F2">>

Count(Y, c) == Cardinality({i \in 1..Len(Y) : Y[i] = c})

Counter(Y) == [c \in Range(Y) |-> Count(Y, c)]

n_majority(Y) == Max({Count(Y, c) : c \in Range(Y)})

(* Mutant of ratio_: only the smallest class is over-sampled. *)
ratio_minority(Y, c) ==
    IF Count(Y, c) = Min({Count(Y, d) : d \in Range(Y)})
    THEN n_majority(Y) - Count(Y, c) ELSE 0

(* ratio_ of 'auto' over-sampling: what each class lacks to the majority. *)
ratio_(Y, c) == n_majority(Y) - Count(Y, c)

(* Mutant of CanSMOTE: a class with too few samples is let through. *)
CanSMOTE_lenient(X, Y) ==
    /\ Len(X.rows) > 0
    /\ Cardinality(Range(Y)) > 1

(* fit_sample raises when X is empty, when y has one class only, and when  *)
(* a class to over-sample has fewer than k_neighbors + 1 samples.          *)
CanSMOTE(X, Y) ==
    /\ Len(X.rows) > 0
    /\ Cardinality(Range(Y)) > 1
    /\ \A c \in Range(Y) : ratio_(Y, c) > 0 => Count(Y, c) >= k_neighbors + 1

ClassRows(X, Y, c) == SelectSeq([i \in 1..Len(Y) |-> i], LAMBDA i : Y[i] = c)

(* The synthetic samples of class c: each lies between a sample of c and   *)
(* one of its neighbours of c; the step along the segment is taken as 0.   *)
synthetic(X, Y, c) ==
    LET own == ClassRows(X, Y, c)
    IN  [j \in 1..(IF c \in Range(Y) THEN ratio_(Y, c) ELSE 0) |->
            X.rows[own[((j - 1) % Len(own)) + 1]]]

RECURSIVE smote_X(_, _, _)
smote_X(X, Y, k) ==
    IF k = 0 THEN X.rows
    ELSE smote_X(X, Y, k - 1) \o synthetic(X, Y, ClassOrder[k])

RECURSIVE smote_Y(_, _)
smote_Y(Y, k) ==
    IF k = 0 THEN Y
    ELSE smote_Y(Y, k - 1) \o
         [j \in 1..(IF ClassOrder[k] \in Range(Y)
                    THEN ratio_(Y, ClassOrder[k]) ELSE 0) |-> ClassOrder[k]]

fit_sample_X(X, Y) == [X EXCEPT !.rows = smote_X(X, Y, Len(ClassOrder))]
fit_sample_Y(Y) == smote_Y(Y, Len(ClassOrder))

----------------------------------------------------------------------------
(* Model training and evaluation *)

(* A fitted classifier maps every feature row to one of the classes it was *)
(* trained on.                                                             *)
Classifiers(X, Y, X_new) ==
    [Range(X.rows) \cup Range(X_new.rows) -> Range(Y)]

predict(c, X) == [i \in 1..Len(X.rows) |-> c[X.rows[i]]]

confusion_matrix(y_true, y_pred) ==
    LET labels == Range(y_true) \cup Range(y_pred)
    IN  [tp \in labels \X labels |->
            Cardinality({i \in 1..Len(y_true) :
                            y_true[i] = tp[1] /\ y_pred[i] = tp[2]})]

(* The fraction of correct predictions, as <<correct, total>>. *)
accuracy_score(y_true, y_pred) ==
    <<Cardinality({i \in 1..Len(y_true) : y_true[i] = y_pred[i]}),
      Len(y_true)>>

----------------------------------------------------------------------------
(* Persisting the model and a sample of the test features *)

n_sample == 5

(* DataFrame.sample(n) raises when the frame has fewer than n rows. *)
CanSample(X, n) == Len(X.rows) >= n

(* X.sample(n): n rows drawn without replacement, in any order. *)
sample(X, n) ==
    {[X EXCEPT !.rows = r] :
        r \in {q \in [1..n -> Range(X.rows)] :
                  \A v \in Range(X.rows) : Count(q, v) <= Count(X.rows, v)}}

(* to_json(orient='records'): the rows as records of the columns, the      *)
(* index left out.                                                         *)
to_json(df) == [i \in 1..Len(df.rows) |-> Restrict(df.rows[i], df.cols)]

----------------------------------------------------------------------------
(* The run *)

Configs ==
    [w : 1..MaxW, lookback : 0..MaxLookback, test_size : TestSizes,
     time_split : BOOLEAN]

NoPrev ==
    [pc |-> "", err |-> "", train |-> EmptyDF, test |-> EmptyDF,
     counts |-> <<>>, model_pkl |-> {}, sample_json |-> {}, cfg |-> <<>>]

Blank ==
    /\ pc = "start"
    /\ err = ""
    /\ combined_df = EmptyDF
    /\ data = EmptyDF
    /\ train = EmptyDF
    /\ test = EmptyDF
    /\ X_train = EmptyDF
    /\ Y_train = <<>>
    /\ X_test = EmptyDF
    /\ Y_test = <<>>
    /\ X_train_res = EmptyDF
    /\ Y_train_res = <<>>
    /\ clf = <<>>
    /\ Y_predictions = <<>>
    /\ cm = <<>>
    /\ accuracy = <<0, 0>>

Init ==
    /\ Blank
    /\ run = 1
    /\ cfg \in Configs
    /\ dir \in Directories
    /\ rng = <<>>
    /\ prev = NoPrev
    /\ model_pkl = {}
    /\ sample_json = {}
    /\ log = <<>>

Abort(stage) ==
    /\ pc' = "aborted"
    /\ err' = stage

(* glob.glob returns the files in arbitrary order; pd.concat raises on an  *)
(* empty list of frames.                                                   *)
Load ==
    /\ pc = "start"
    /\ IF dir # {}
       THEN /\ \E files \in Orderings(dir) :
                  combined_df' = read_concat(files)
            /\ pc' = "loaded"
            /\ UNCHANGED err
       ELSE /\ Abort("load")
            /\ UNCHANGED combined_df
    /\ UNCHANGED <<run, cfg, dir, rng, data, train, test, X_train,
                   Y_train, X_test, Y_test, X_train_res, Y_train_res, clf,
                   Y_predictions, cm, accuracy, prev,
                   model_pkl, sample_json, log>>

(* Mutant of PreFilter: the split is handed the records as they were read. *)
PreFilter_none ==
    /\ pc = "loaded"
    /\ data' = combined_df
    /\ pc' = "prefiltered"
    /\ UNCHANGED <<err, run, cfg, dir, rng, combined_df, train, test, X_train,
                   Y_train, X_test, Y_test, X_train_res, Y_train_res, clf,
                   Y_predictions, cm, accuracy, prev,
                   model_pkl, sample_json, log>>

PreFilter ==
    /\ pc = "loaded"
    /\ data' = prefilter(combined_df, cfg.w)
    /\ pc' = "prefiltered"
    /\ UNCHANGED <<err, run, cfg, dir, rng, combined_df, train, test, X_train,
                   Y_train, X_test, Y_test, X_train_res, Y_train_res, clf,
                   Y_predictions, cm, accuracy, prev,
                   model_pkl, sample_json, log>>

(* Mutant of TimeSplit: a test-side machine left without training records *)
(* is an error.                                                            *)
TimeSplit_strict ==
    /\ pc = "prefiltered"
    /\ cfg.time_split
    /\ IF /\ CanSetIndex(data, "entryID") /\ Len(data.rows) > 0
          /\ \A i \in 1..Len(time_test(data, cfg.test_size).rows) :
                \E j \in 1..Len(time_train(data, cfg.test_size,
                                            cfg.lookback).rows) :
                    time_train(data, cfg.test_size,
                               cfg.lookback).rows[j]["machineID"]
                    = time_test(data, cfg.test_size).rows[i]["machineID"]
       THEN /\ data' = time_sorted(data)
            /\ train' = time_train(data, cfg.test_size, cfg.lookback)
            /\ test' = time_test(data, cfg.test_size)
            /\ pc' = "split"
            /\ UNCHANGED err
       ELSE /\ Abort("split")
            /\ UNCHANGED <<data, train, test>>
    /\ UNCHANGED <<run, cfg, dir, rng, combined_df, X_train, Y_train, X_test,
                   Y_test, X_train_res, Y_train_res, clf,
                   Y_predictions, cm, accuracy, prev,
                   model_pkl, sample_json, log>>

TimeSplit ==
    /\ pc = "prefiltered"
    /\ cfg.time_split
    /\ IF CanSetIndex(data, "entryID") /\ Len(data.rows) > 0
       THEN /\ data' = time_sorted(data)
            /\ train' = time_train(data, cfg.test_size, cfg.lookback)
            /\ test' = time_test(data, cfg.test_size)
            /\ pc' = "split"
            /\ UNCHANGED err
       ELSE /\ Abort("split")
            /\ UNCHANGED <<data, train, test>>
    /\ UNCHANGED <<run, cfg, dir, rng, combined_df, X_train, Y_train, X_test,
                   Y_test, X_train_res, Y_train_res, clf,
                   Y_predictions, cm, accuracy, prev,
                   model_pkl, sample_json, log>>

(* Mutant of AssetSplit: the first lookback cycles of every machine, whose *)
(* rolling window is incomplete, are left out of train.                    *)
AssetSplit_lookback ==
    /\ pc = "prefiltered"
    /\ ~cfg.time_split
    /\ IF Len(data.rows) > 0
       THEN LET n == Len(unique_assets(data))
            IN  \E p \in Perms(n) :
                   /\ n \in DOMAIN rng => p = rng[n]
                   /\ rng' = IF n \in DOMAIN rng THEN rng
                             ELSE [i \in DOMAIN rng \cup {n} |->
                                      IF i = n THEN p ELSE rng[i]]
                   /\ IF CanSetIndex(data, "entryID")
                      THEN /\ train' =
                             LET tr == asset_train(data, p, cfg.test_size)
                             IN  filter(tr, [i \in 1..Len(tr.rows) |->
                                    tr.rows[i]["cycle"] > cfg.lookback])
                           /\ test' = asset_test(data, p, cfg.test_size)
                           /\ pc' = "split"
                           /\ UNCHANGED err
                      ELSE /\ train' = isin(data, train_assets(
                                          unique_assets(data), p, cfg.test_size))
                           /\ test' = isin(data, test_assets(
                                         unique_assets(data), p, cfg.test_size))
                           /\ Abort("split")
       ELSE /\ Abort("split")
            /\ UNCHANGED <<rng, train, test>>
    /\ UNCHANGED <<run, cfg, dir, combined_df, data, X_train, Y_train, X_test,
                   Y_test, X_train_res, Y_train_res, clf,
                   Y_predictions, cm, accuracy, prev,
                   model_pkl, sample_json, log>>

(* The asset branch assigns train and test before it sets their index:    *)
(* when entryID is not a column of data (it is its index after a time      *)
(* split of the same session), set_index raises with both assigned.        *)
AssetSplit ==
    /\ pc = "prefiltered"
    /\ ~cfg.time_split
    /\ IF Len(data.rows) > 0
       THEN LET n == Len(unique_assets(data))
            IN  \E p \in Perms(n) :
                   /\ n \in DOMAIN rng => p = rng[n]
                   /\ rng' = IF n \in DOMAIN rng THEN rng
                             ELSE [i \in DOMAIN rng \cup {n} |->
                                      IF i = n THEN p ELSE rng[i]]
                   /\ IF CanSetIndex(data, "entryID")
                      THEN /\ train' = asset_train(data, p, cfg.test_size)
                           /\ test' = asset_test(data, p, cfg.test_size)
                           /\ pc' = "split"
                           /\ UNCHANGED err
                      ELSE /\ train' = isin(data, train_assets(
                                          unique_assets(data), p, cfg.test_size))
                           /\ test' = isin(data, test_assets(
                                         unique_assets(data), p, cfg.test_size))
                           /\ Abort("split")
       ELSE /\ Abort("split")
            /\ UNCHANGED <<rng, train, test>>
    /\ UNCHANGED <<run, cfg, dir, combined_df, data, X_train, Y_train, X_test,
                   Y_test, X_train_res, Y_train_res, clf,
                   Y_predictions, cm, accuracy, prev,
                   model_pkl, sample_json, log>>

Label ==
    /\ pc = "split"
    /\ IF CanXY(train) /\ CanXY(test)
       THEN /\ X_train' = xy_X(train)
            /\ Y_train' = xy_Y(train, cfg.w)
            /\ X_test' = xy_X(test)
            /\ Y_test' = xy_Y(test, cfg.w)
            /\ pc' = "labelled"
            /\ UNCHANGED err
       ELSE /\ Abort("label")
            /\ UNCHANGED <<X_train, Y_train, X_test, Y_test>>
    /\ UNCHANGED <<run, cfg, dir, rng, combined_df, data, train, test,
                   X_train_res, Y_train_res, clf,
                   Y_predictions, cm, accuracy, prev,
                   model_pkl, sample_json, log>>

(* Mutant of Balance: the test set is over-sampled as well. *)
Balance_test_too ==
    /\ pc = "labelled"
    /\ IF CanSMOTE(X_train, Y_train)
       THEN /\ X_train_res' = fit_sample_X(X_train, Y_train)
            /\ Y_train_res' = fit_sample_Y(Y_train)
            /\ X_test' = IF CanSMOTE(X_test, Y_test)
                         THEN fit_sample_X(X_test, Y_test) ELSE X_test
            /\ Y_test' = IF CanSMOTE(X_test, Y_test)
                         THEN fit_sample_Y(Y_test) ELSE Y_test
            /\ pc' = "balanced"
            /\ UNCHANGED err
       ELSE /\ Abort("balance")
            /\ UNCHANGED <<X_train_res, Y_train_res, X_test, Y_test>>
    /\ UNCHANGED <<run, cfg, dir, rng, combined_df, data, train, test,
                   X_train, Y_train, clf, Y_predictions, cm, accuracy, prev,
                   model_pkl, sample_json, log>>

Balance ==
    /\ pc = "labelled"
    /\ IF CanSMOTE(X_train, Y_train)
       THEN /\ X_train_res' = fit_sample_X(X_train, Y_train)
            /\ Y_train_res' = fit_sample_Y(Y_train)
            /\ pc' = "balanced"
            /\ UNCHANGED err
       ELSE /\ Abort("balance")
            /\ UNCHANGED <<X_train_res, Y_train_res>>
    /\ UNCHANGED <<run, cfg, dir, rng, combined_df, data, train, test,
                   X_train, Y_train, X_test, Y_test, clf, Y_predictions, cm,
                   accuracy, prev,
                   model_pkl, sample_json, log>>

Fit ==
    /\ pc = "balanced"
    /\ clf' \in Classifiers(X_train_res, Y_train_res, X_test)
    /\ pc' = "fitted"
    /\ UNCHANGED <<err, run, cfg, dir, rng, combined_df, data, train, test,
                   X_train, Y_train, X_test, Y_test, X_train_res, Y_train_res,
                   Y_predictions, cm, accuracy, prev,
                   model_pkl, sample_json, log>>

Evaluate ==
    /\ pc = "fitted"
    /\ Y_predictions' = predict(clf, X_test)
    /\ cm' = confusion_matrix(Y_test, Y_predictions')
    /\ pc' = "evaluated"
    /\ UNCHANGED <<err, run, cfg, dir, rng, combined_df, data, train, test,
                   X_train, Y_train, X_test, Y_test, X_train_res, Y_train_res,
                   clf, accuracy, prev,
                   model_pkl, sample_json, log>>

Score ==
    /\ pc = "evaluated"
    /\ accuracy' = accuracy_score(Y_test, Y_predictions)
    /\ pc' = "scored"
    /\ UNCHANGED <<err, run, cfg, dir, rng, combined_df, data, train, test,
                   X_train, Y_train, X_test, Y_test, X_train_res, Y_train_res,
                   clf, Y_predictions, cm, prev,
                   model_pkl, sample_json, log>>

(* Mutant of DumpModel: the cell also runs after an earlier cell raised. *)
DumpModel_after_error ==
    /\ pc \in {"scored", "aborted"}
    /\ model_pkl' = {clf}
    /\ pc' = "dumped"
    /\ UNCHANGED <<err, run, cfg, dir, rng, combined_df, data, train, test,
                   X_train, Y_train, X_test, Y_test, X_train_res, Y_train_res,
                   clf, Y_predictions, cm, accuracy, prev, sample_json, log>>

(* joblib.dump(clf, 'model.pkl') *)
DumpModel ==
    /\ pc = "scored"
    /\ model_pkl' = {clf}
    /\ pc' = "dumped"
    /\ UNCHANGED <<err, run, cfg, dir, rng, combined_df, data, train, test,
                   X_train, Y_train, X_test, Y_test, X_train_res, Y_train_res,
                   clf, Y_predictions, cm, accuracy, prev, sample_json, log>>

(* The sample is drawn before sample.json is opened for writing. *)
WriteSample ==
    /\ pc = "dumped"
    /\ IF CanSample(X_test, n_sample)
       THEN /\ \E smp \in sample(X_test, n_sample) :
                  sample_json' = {to_json(smp)}
            /\ pc' = "sampled"
            /\ UNCHANGED err
       ELSE /\ Abort("sample")
            /\ UNCHANGED sample_json
    /\ UNCHANGED <<run, cfg, dir, rng, combined_df, data, train, test,
                   X_train, Y_train, X_test, Y_test, X_train_res, Y_train_res,
                   clf, Y_predictions, cm, accuracy, prev, model_pkl, log>>

(* The pipeline is run again from scratch over the same directory with the *)
(* same configuration; what the first run produced is kept in prev.        *)
Rerun ==
    /\ pc \in {"sampled", "aborted"}
    /\ run = 1
    /\ run' = 2
    /\ prev' = [pc |-> pc, err |-> err, train |-> train, test |-> test,
                counts |-> Counter(Y_train_res), model_pkl |-> model_pkl,
                sample_json |-> sample_json, cfg |-> cfg]
    /\ pc' = "start"
    /\ err' = ""
    /\ combined_df' = EmptyDF
    /\ data' = EmptyDF
    /\ train' = EmptyDF
    /\ test' = EmptyDF
    /\ X_train' = EmptyDF
    /\ Y_train' = <<>>
    /\ X_test' = EmptyDF
    /\ Y_test' = <<>>
    /\ X_train_res' = EmptyDF
    /\ Y_train_res' = <<>>
    /\ clf' = <<>>
    /\ Y_predictions' = <<>>
    /\ cm' = <<>>
    /\ accuracy' = <<0, 0>>
    /\ log' = <<>>
    /\ UNCHANGED <<cfg, dir, rng, model_pkl, sample_json>>

Next ==
    \/ Load \/ PreFilter \/ TimeSplit \/ AssetSplit \/ Label \/ Balance
    \/ Fit \/ Evaluate \/ Score \/ DumpModel \/ WriteSample \/ Rerun

Spec == Init /\ [][Next]_vars

----------------------------------------------------------------------------
(* The whole pipeline again, the future horizon now being any value the    *)
(* first cell can be edited to hold, w = 0 included.                       *)

AnyConfigs ==
    [w : 0..MaxW, lookback : 0..MaxLookback, test_size : TestSizes,
     time_split : BOOLEAN]

InitConfig ==
    /\ Blank
    /\ run = 1
    /\ cfg \in AnyConfigs
    /\ dir \in Directories
    /\ rng = <<>>
    /\ prev = NoPrev
    /\ model_pkl = {}
    /\ sample_json = {}
    /\ log = <<>>

SpecConfig == InitConfig /\ [][Next]_vars

----------------------------------------------------------------------------
(* The split cell alone, on data sets of any shape: up to MaxRecords       *)
(* records of failing runs (the pre-filter keeps them all), any machine    *)
(* and cycle in each, read in ascending or in descending entryID order.    *)

MaxRecords == 3
MaxCycle == 3

SplitFiles ==
    {[name |-> 1,
      cols |-> AllColumns,
      rows |-> [i \in 1..n |->
                   [entryID |-> IF asc THEN i ELSE n + 1 - i,
                    machineID |-> m[i],
                    cycle |-> c[i],
                    sequenceID |-> 1,
                    rul |-> 1,
                    failure |-> "F1",
                    s1 |-> 0]]] :
        n \in 1..MaxRecords, asc \in BOOLEAN,
        m \in [1..MaxRecords -> Machines], c \in [1..MaxRecords -> 1..MaxCycle]}

InitSplit ==
    /\ \E file \in SplitFiles :
          /\ dir = {file}
          /\ combined_df = read_concat(<<file>>)
    /\ cfg \in {c \in Configs : c.w = 1}
    /\ data = prefilter(combined_df, cfg.w)
    /\ pc = "prefiltered"
    /\ err = ""
    /\ run = 1
    /\ rng = <<>>
    /\ prev = NoPrev
    /\ model_pkl = {}
    /\ sample_json = {}
    /\ log = <<>>
    /\ train = EmptyDF
    /\ test = EmptyDF
    /\ X_train = EmptyDF
    /\ Y_train = <<>>
    /\ X_test = EmptyDF
    /\ Y_test = <<>>
    /\ X_train_res = EmptyDF
    /\ Y_train_res = <<>>
    /\ clf = <<>>
    /\ Y_predictions = <<>>
    /\ cm = <<>>
    /\ accuracy = <<0, 0>>

NextSplit == TimeSplit \/ AssetSplit

SpecSplit == InitSplit /\ [][NextSplit]_vars

----------------------------------------------------------------------------
(* The split cell run twice on the same data: the second run differs from  *)
(* the first in the value of lookback only.                                *)

RerunLookback ==
    /\ pc = "split"
    /\ run = 1
    /\ run' = 2
    /\ prev' = [NoPrev EXCEPT !.pc = pc, !.train = train, !.test = test,
                              !.cfg = cfg]
    /\ \E l \in 0..MaxLookback :
          /\ l # cfg.lookback
          /\ cfg' = [cfg EXCEPT !.lookback = l]
    /\ data' = prefilter(combined_df, cfg.w)
    /\ train' = EmptyDF
    /\ test' = EmptyDF
    /\ pc' = "prefiltered"
    /\ UNCHANGED <<err, dir, rng, combined_df, X_train, Y_train, X_test,
                   Y_test, X_train_res, Y_train_res, clf, Y_predictions, cm,
                   accuracy, model_pkl, sample_json, log>>

NextLookback == TimeSplit \/ AssetSplit \/ RerunLookback

SpecLookback == InitSplit /\ [][NextLookback]_vars

----------------------------------------------------------------------------
(* The split cell run twice in one session, the second time with the same  *)
(* configuration or with the other strategy: the notebook's variables      *)
(* (data, train, test) are as the first run left them.                     *)

SplitAgain ==
    /\ pc = "split"
    /\ run = 1
    /\ run' = 2
    /\ prev' = [NoPrev EXCEPT !.pc = pc, !.train = train, !.test = test,
                              !.cfg = cfg]
    /\ \E ts \in BOOLEAN : cfg' = [cfg EXCEPT !.time_split = ts]
    /\ pc' = "prefiltered"
    /\ UNCHANGED <<err, dir, rng, combined_df, data, train, test, X_train,
                   Y_train, X_test, Y_test, X_train_res, Y_train_res, clf,
                   Y_predictions, cm, accuracy, model_pkl, sample_json, log>>

NextResplit == TimeSplit \/ AssetSplit \/ SplitAgain

SpecResplit == InitSplit /\ [][NextResplit]_vars

----------------------------------------------------------------------------
(* The label cell alone: xy on partitions whose records hold any rul       *)
(* (missing, 0, below, at and above the horizon) and any failure field.    *)

Ruls == {NaN} \cup 0..(MaxW + 1)

LabelRows(first, n) ==
    {[i \in 1..n |->
         [entryID |-> first + i, machineID |-> 1, cycle |-> i,
          sequenceID |-> 1, rul |-> r[i], failure |-> k[i], s1 |-> 0]] :
        r \in [1..n -> Ruls], k \in [1..n -> FailureCodes \cup {""}]}

Partition(rows) ==
    set_index(DataFrame(AllColumns, rows), "entryID")

InitXY ==
    /\ \E rows \in LabelRows(0, 2) : train = Partition(rows)
    /\ \E rows \in LabelRows(2, 1) : test = Partition(rows)
    /\ cfg \in {c \in Configs : c.lookback = 0 /\ c.test_size = <<1, 2>>}
    /\ pc = "split"
    /\ err = ""
    /\ run = 1
    /\ dir = {}
    /\ rng = <<>>
    /\ prev = NoPrev
    /\ model_pkl = {}
    /\ sample_json = {}
    /\ log = <<>>
    /\ combined_df = EmptyDF
    /\ data = EmptyDF
    /\ X_train = EmptyDF
    /\ Y_train = <<>>
    /\ X_test = EmptyDF
    /\ Y_test = <<>>
    /\ X_train_res = EmptyDF
    /\ Y_train_res = <<>>
    /\ clf = <<>>
    /\ Y_predictions = <<>>
    /\ cm = <<>>
    /\ accuracy = <<0, 0>>

NextXY == Label

SpecXY == InitXY /\ [][NextXY]_vars

----------------------------------------------------------------------------
(* Balancing, training and evaluation alone, on label sets large enough    *)
(* for SMOTE to run: up to MaxCount training records of each class.        *)

MaxCount == 8

(* n records that xy labels c under the horizon w = 2. *)
Labelled(c, n, first) ==
    [i \in 1..n |->
        [entryID |-> first + i, machineID |-> 1, cycle |-> first + i,
         sequenceID |-> 1, rul |-> IF c = "" THEN NaN ELSE 1,
         failure |-> c, s1 |-> 0]]

RowsOfCounts(n) ==
    Labelled("", n[1], 0) \o Labelled("F1", n[2], n[1])
        \o Labelled("F2", n[3], n[1] + n[2])

TestCounts == {<<1, 1, 0>>, <<k_neighbors + 2, k_neighbors + 1, 0>>}

InitBalance ==
    /\ \E n \in [1..3 -> 0..MaxCount] : train = Partition(RowsOfCounts(n))
    /\ \E n \in TestCounts : test = Partition(RowsOfCounts(n))
    /\ cfg \in {c \in Configs :
                  c.w = 2 /\ c.lookback = 0 /\ c.test_size = <<1, 2>>
                  /\ ~c.time_split}
    /\ X_train = xy_X(train)
    /\ Y_train = xy_Y(train, cfg.w)
    /\ X_test = xy_X(test)
    /\ Y_test = xy_Y(test, cfg.w)
    /\ pc = "labelled"
    /\ err = ""
    /\ run = 1
    /\ dir = {}
    /\ rng = <<>>
    /\ prev = NoPrev
    /\ model_pkl = {}
    /\ sample_json = {}
    /\ log = <<>>
    /\ combined_df = EmptyDF
    /\ data = EmptyDF
    /\ X_train_res = EmptyDF
    /\ Y_train_res = <<>>
    /\ clf = <<>>
    /\ Y_predictions = <<>>
    /\ cm = <<>>
    /\ accuracy = <<0, 0>>

NextBalance ==
    Balance \/ Fit \/ Evaluate \/ Score \/ DumpModel \/ WriteSample

SpecBalance == InitBalance /\ [][NextBalance]_vars

----------------------------------------------------------------------------
(* The read cell alone, on any directory: up to two csv files, with the    *)
(* feature column s2 or without it, of up to MaxRows rows each; a row may  *)
(* occur more than once, in one file and across the files.                 *)

MaxRows == 2

LoadRow(e, cs) ==
    [c \in cs |->
        IF c \in {"entryID", "cycle"} THEN e
        ELSE IF c = "failure" THEN "F1"
        ELSE IF c \in {"s1", "s2"} THEN 0
        ELSE 1]

LoadFiles(name) ==
    {[name |-> name, cols |-> cs,
      rows |-> [i \in 1..n |-> LoadRow(e[i], cs)]] :
        cs \in {AllColumns, AllColumns \cup {"s2"}},
        n \in 0..MaxRows, e \in [1..MaxRows -> 1..2]}

LoadDirectories ==
    {d1 \cup d2 :
        d1 \in {{}} \cup {{g} : g \in LoadFiles(1)},
        d2 \in {{}} \cup {{g} : g \in LoadFiles(2)}}

InitLoad ==
    /\ Blank
    /\ run = 1
    /\ cfg \in {c \in Configs : c.w = 1 /\ c.lookback = 0
                                /\ c.test_size = <<1, 2>> /\ c.time_split}
    /\ dir \in LoadDirectories
    /\ rng = <<>>
    /\ prev = NoPrev
    /\ model_pkl = {}
    /\ sample_json = {}
    /\ log = <<>>

NextLoad == Load

SpecLoad == InitLoad /\ [][NextLoad]_vars

----------------------------------------------------------------------------
(* The pre-filter cell alone, on machines that were run more than once:    *)
(* every machine has two sequences of up to MaxRun cycles, one after the   *)
(* other, each ending in a failure or not.                                 *)

MaxRun == 2

RunRows(m, q, first, len, kind) ==
    [c \in 1..len |->
        [entryID |-> ((m - 1) * 2 + (q - 1)) * (MaxRun + 1) + c,
         machineID |-> m,
         cycle |-> first + c,
         sequenceID |-> q,
         rul |-> IF kind = "" THEN NaN ELSE len - c,
         failure |-> kind,
         s1 |-> 0]]

RunFiles(m) ==
    {[name |-> m,
      cols |-> AllColumns,
      rows |-> RunRows(m, 1, 0, l[1], k[1]) \o RunRows(m, 2, l[1], l[2], k[2])] :
        l \in [1..2 -> 0..MaxRun], k \in [1..2 -> {"", "F1"}]}

InitPreFilter ==
    /\ \E fs \in [Machines -> UNION {RunFiles(m) : m \in Machines}] :
          /\ \A m \in Machines : fs[m] \in RunFiles(m)
          /\ dir = {fs[m] : m \in Machines}
          /\ combined_df = read_concat([i \in 1..Cardinality(Machines) |->
                                           fs[i]])
    /\ cfg \in {c \in Configs :
                  c.lookback = 0 /\ c.test_size = <<1, 2>> /\ c.time_split}
    /\ pc = "loaded"
    /\ err = ""
    /\ run = 1
    /\ rng = <<>>
    /\ prev = NoPrev
    /\ model_pkl = {}
    /\ sample_json = {}
    /\ log = <<>>
    /\ data = EmptyDF
    /\ train = EmptyDF
    /\ test = EmptyDF
    /\ X_train = EmptyDF
    /\ Y_train = <<>>
    /\ X_test = EmptyDF
    /\ Y_test = <<>>
    /\ X_train_res = EmptyDF
    /\ Y_train_res = <<>>
    /\ clf = <<>>
    /\ Y_predictions = <<>>
    /\ cm = <<>>
    /\ accuracy = <<0, 0>>

NextPreFilter == PreFilter

SpecPreFilter == InitPreFilter /\ [][NextPreFilter]_vars

----------------------------------------------------------------------------
(* Properties *)

IDs(df) == {df.rows[i]["entryID"] : i \in 1..Len(df.rows)}

MachinesOf(df) == {df.rows[i]["machineID"] : i \in 1..Len(df.rows)}

CyclesOf(df, m) ==
    {df.rows[i]["cycle"] : i \in {j \in 1..Len(df.rows) :
                                     df.rows[j]["machineID"] = m}}

AfterBalance ==
    {"balanced", "fitted", "evaluated", "scored", "dumped", "sampled"}
AfterLabel == {"labelled"} \cup AfterBalance
AfterSplit == {"split"} \cup AfterLabel

(* The run got past the balancing cell (a run whose test set has fewer     *)
(* than n_sample rows ends in the sample cell).                            *)
Balanced(p) == p.pc \in AfterBalance \/ (p.pc = "aborted" /\ p.err = "sample")

(* A partition and its labels agree with the claim "rul within the horizon *)
(* gives the failure code".                                                *)
WithinHorizonLabelled(df, Y, w) ==
    \A i \in 1..Len(df.rows) :
        (df.rows[i]["rul"] # NaN /\ 0 <= df.rows[i]["rul"]
            /\ df.rows[i]["rul"] < w)
        => Y[i] = df.rows[i]["failure"]

(* C1: every record whose rul is not null and 0 <= rul < w is labelled     *)
(* with its failure code, rul = w - 1 and rul = 0 included.                *)
C1_WithinHorizonGetsFailureCode ==
    pc = "labelled" =>
        /\ WithinHorizonLabelled(train, Y_train, cfg.w)
        /\ WithinHorizonLabelled(test, Y_test, cfg.w)

BeyondHorizonEmpty(df, Y, w) ==
    \A i \in 1..Len(df.rows) :
        (df.rows[i]["rul"] = NaN \/ df.rows[i]["rul"] >= w) => Y[i] = ""

C3_TrainTestDisjoint ==
    pc = "split" => IDs(train) \cap IDs(test) = {}

C3_Witness ==
    /\ pc = "split"
    /\ ~cfg.time_split
    /\ IDs(train) # {}
    /\ IDs(test) # {}
    /\ Cardinality(IDs(train) \cup IDs(test)) = MaxRecords

(* C4: after the time-ordered split, train holds no record of a machine    *)
(* present in test whose cycle >= min_test_cycle(machine) - lookback.      *)
C4_LeakageExclusion ==
    (pc = "split" /\ cfg.time_split) =>
        \A m \in MachinesOf(test) :
            \A c \in CyclesOf(train, m) :
                ~(c >= Min(CyclesOf(test, m)) - cfg.lookback)

(* A machine on both sides, one of whose records the exclusion removed. *)
C4_Witness ==
    /\ pc = "split"
    /\ cfg.time_split
    /\ cfg.lookback = 1
    /\ \E m \in MachinesOf(test) \cap MachinesOf(train) :
          \E i \in 1..Len(data.rows) :
             /\ data.rows[i]["machineID"] = m
             /\ data.rows[i]["entryID"] \notin IDs(train) \cup IDs(test)

Window(c, lookback) == (c - lookback)..c

(* C5: after the time-ordered split, the rolling-feature window of a train *)
(* record and that of a test record of the same machine share no cycle.    *)
C5_NoCommonTimeFrame ==
    (pc = "split" /\ cfg.time_split) =>
        \A m \in MachinesOf(test) :
            \A c \in CyclesOf(train, m), d \in CyclesOf(test, m) :
                Window(c, cfg.lookback) \cap Window(d, cfg.lookback) = {}

(* A train window and a test window of one machine that are adjacent. *)
C5_Witness ==
    /\ pc = "split"
    /\ cfg.time_split
    /\ cfg.lookback = 1
    /\ \E m \in MachinesOf(test) :
          \E c \in CyclesOf(train, m), d \in CyclesOf(test, m) :
             d - c = cfg.lookback + 1

(* C6: after the asset-identifier split every machine has all of its       *)
(* records in train or all of them in test, and none has records on both   *)
(* sides.                                                                  *)
C6_AssetSplitPurity ==
    (pc = "split" /\ ~cfg.time_split) =>
        /\ MachinesOf(train) \cap MachinesOf(test) = {}
        /\ \A m \in MachinesOf(reset_index(data)) :
              LET ids == {data.rows[i]["entryID"] :
                             i \in {j \in 1..Len(data.rows) :
                                       data.rows[j]["machineID"] = m}}
              IN  ids \subseteq IDs(train) \/ ids \subseteq IDs(test)

C6_Witness ==
    /\ pc = "split"
    /\ ~cfg.time_split
    /\ \E m \in MachinesOf(train) : Cardinality(CyclesOf(train, m)) > 1
    /\ MachinesOf(test) # {}

(* C7: after balancing, every class of the training labels has the same    *)
(* number of rows, the pre-balance count of the majority class.            *)
C7_BalancedToMajority ==
    pc \in AfterBalance =>
        /\ Range(Y_train_res) = Range(Y_train)
        /\ Len(X_train_res.rows) = Len(Y_train_res)
        /\ \A c \in Range(Y_train) :
              Cardinality({i \in 1..Len(Y_train_res) : Y_train_res[i] = c})
                  = Max({Cardinality({i \in 1..Len(Y_train) : Y_train[i] = d}) :
                            d \in Range(Y_train)})

(* Three classes of three different sizes were balanced. *)
C7_Witness ==
    /\ pc = "balanced"
    /\ Cardinality(Range(Y_train)) = 3
    /\ Cardinality({Count(Y_train, c) : c \in Range(Y_train)}) = 3

TestSetKept == pc \in AfterLabel => (X_test' = X_test /\ Y_test' = Y_test)

(* C8: balancing leaves the test features and labels as they were, and the *)
(* confusion matrix and the accuracy are computed on these test labels.    *)
C8_TestUntouched ==
    /\ [][TestSetKept]_vars
    /\ [](pc \in {"evaluated", "scored", "dumped", "sampled"} =>
            /\ Len(Y_predictions) = Len(Y_test)
            /\ \A t, q \in Range(Y_test) \cup Range(Y_predictions) :
                  cm[<<t, q>>] = Cardinality({i \in 1..Len(Y_test) :
                                    Y_test[i] = t /\ Y_predictions[i] = q}))
    /\ [](pc \in {"scored", "dumped", "sampled"} =>
            accuracy = <<Cardinality({i \in 1..Len(Y_test) :
                                         Y_test[i] = Y_predictions[i]}),
                         Len(Y_test)>>)

(* Training labels were really over-sampled, the test set would have been  *)
(* over-sampled too had the balancer been given it, and the run was scored. *)
C8_Witness ==
    /\ pc = "scored"
    /\ Len(Y_train_res) > Len(Y_train)
    /\ CanSMOTE(X_test, Y_test)
    /\ Count(Y_test, "") # Count(Y_test, "F1")

(* C9: under both split strategies the feature tables of both partitions   *)
(* hold none of the columns cycle, failure, rul, sequenceID, machineID.    *)
NoTargetColumns(X) ==
    LET banned == {"cycle", "failure", "rul", "sequenceID", "machineID"}
    IN  /\ X.cols \cap banned = {}
        /\ X.index \notin banned
        /\ \A i \in 1..Len(X.rows) : DOMAIN X.rows[i] \cap banned = {}

C9_FeatureColumnExclusion ==
    pc \in AfterLabel =>
        /\ NoTargetColumns(X_train) /\ NoTargetColumns(X_test)
        /\ NoTargetColumns(X_train_res)

C9_Witness ==
    /\ pc = "balanced"
    /\ cfg.time_split
    /\ Balanced(prev)
    /\ Len(X_train.rows) > 0
    /\ Len(X_test.rows) > 0

(* C10: two runs over the same directory with the same configuration and   *)
(* seed produce the same train/test partitions and the same post-balance   *)
(* class counts.                                                           *)
C10_RerunIdentical ==
    run = 2 =>
        /\ pc \in AfterSplit => (train = prev.train /\ test = prev.test)
        /\ (pc \in AfterBalance /\ Balanced(prev))
              => Counter(Y_train_res) = prev.counts

(* The records of the sequence q of machine m. *)
RunOf(df, m, q) ==
    {i \in 1..Len(df.rows) :
        df.rows[i]["machineID"] = m /\ df.rows[i]["sequenceID"] = q}

NonFailingRuns(df) ==
    {mq \in Machines \X {1, 2} :
        /\ RunOf(df, mq[1], mq[2]) # {}
        /\ \A i \in RunOf(df, mq[1], mq[2]) : df.rows[i]["rul"] = NaN}

(* C11: of every sequence that does not lead up to a failure (all its rul  *)
(* null), n records long, the pre-filter removes the min(n, w) records of  *)
(* the highest cycles, and no other record of it.                          *)
C11_TrailingCyclesRemoved ==
    pc = "prefiltered" =>
        \A mq \in NonFailingRuns(combined_df) :
            LET rr == RunOf(combined_df, mq[1], mq[2])
                n == Cardinality(rr)
                last == Max({combined_df.rows[i]["cycle"] : i \in rr})
            IN  \A i \in rr :
                   (combined_df.rows[i]["entryID"] \notin IDs(data))
                   <=> (combined_df.rows[i]["cycle"]
                           > last - Min({n, cfg.w}))

FailStages == {"load", "prefilter", "split", "label", "balance"}

AbortedStops == pc = "aborted" => pc' = "start"

(* C12: when the load, pre-filter, split, label or balance cell raises,    *)
(* the run is aborted: no later cell runs, and model.pkl and sample.json   *)
(* are as they were when the run started (absent on a first run).          *)
C12_NoArtifactAfterFailure ==
    /\ [](err \in FailStages =>
            /\ pc = "aborted"
            /\ model_pkl = prev.model_pkl
            /\ sample_json = prev.sample_json)
    /\ [][AbortedStops]_vars

(* The first run wrote model.pkl, the second one failed in the balancer. *)
C12_Witness ==
    /\ run = 2
    /\ pc = "aborted"
    /\ err = "balance"
    /\ prev.model_pkl # {}
    /\ model_pkl = prev.model_pkl

InvalidConfig(c) ==
    \/ c.w <= 0
    \/ c.test_size[1] <= 0
    \/ c.test_size[1] >= c.test_size[2]

(* C13: a run whose configuration is invalid (w <= 0, or test_size not in  *)
(* the open interval (0, 1)) is rejected before any cell has computed      *)
(* anything: it never leaves the start but into the abort of the           *)
(* configuration check, and no data is ever loaded.                        *)
C13_InvalidConfigRejected ==
    InvalidConfig(cfg) =>
        /\ pc = "start" \/ (pc = "aborted" /\ err = "config")
        /\ combined_df = EmptyDF

SameSchema(d) == \A g, h \in d : g.cols = h.cols

(* C14: when the csv files do not all have the same columns, the read cell *)
(* fails and leaves no unified record set behind.                          *)
C14_SchemaMismatchRejected ==
    ~SameSchema(dir) =>
        /\ pc = "start" \/ (pc = "aborted" /\ err = "load")
        /\ combined_df = EmptyDF

(* The rows of combined_df that the assignment owner gives to the file g,  *)
(* in their order, each cut down to the columns of g.                      *)
RowsFrom(g, owner) ==
    LET own == SelectSeq([i \in 1..Len(combined_df.rows) |-> i],
                         LAMBDA i : owner[i] = g)
    IN  [j \in 1..Len(own) |-> Restrict(combined_df.rows[own[j]], g.cols)]

(* C17: combined_df is made of the rows of the files and of nothing else:  *)
(* its rows can be dealt out to the files so that every file gets back its *)
(* own rows, each as often as it holds it, in its own order.               *)
C17_ConcatenationKeepsRows ==
    pc = "loaded" =>
        \E owner \in [1..Len(combined_df.rows) -> dir] :
            \A g \in dir : RowsFrom(g, owner) = g.rows

(* Two files of two rows each that hold the same rows in opposite orders,  *)
(* so every row is held twice.                                             *)
C17_Witness ==
    /\ pc = "loaded"
    /\ Len(combined_df.rows) = 2 * MaxRows
    /\ \E g, h \in dir :
          /\ g.name # h.name
          /\ g.cols = h.cols
          /\ g.rows[1] # g.rows[2]
          /\ h.rows = <<g.rows[2], g.rows[1]>>

Examples(Y, c) == Cardinality({i \in 1..Len(Y) : Y[i] = c})

Degenerate ==
    /\ pc = "split"
    /\ cfg.time_split
    /\ MachinesOf(test) \ MachinesOf(train) # {}

(* C16 as the claim states it: a time split that leaves a test-side        *)
(* machine without training records does not abort, returns train and      *)
(* test, and logs a DegenerateSplitWarning.                                *)
C16_DegenerateSplitLogged ==
    Degenerate =>
        /\ err = ""
        /\ train.index = "entryID" /\ test.index = "entryID"
        /\ "DegenerateSplitWarning" \in Range(log)

(* C16, amended: the time split raises on an empty data set only; a split  *)
(* that leaves a test-side machine without training records returns train  *)
(* and test, and nothing is logged.                                        *)
C16_DegenerateSplitSilent ==
    cfg.time_split =>
        /\ pc = "aborted" => Len(data.rows) = 0
        /\ Degenerate =>
              /\ err = ""
              /\ train.index = "entryID" /\ test.index = "entryID"
              /\ IDs(test) # {}
              /\ log = <<>>

(* The exclusion took from train every record of a test-side machine. *)
C16_Witness ==
    /\ Degenerate
    /\ \E m \in MachinesOf(test) \ MachinesOf(train) :
          \E i \in 1..Len(data.rows) :
             /\ data.rows[i]["machineID"] = m
             /\ data.rows[i]["entryID"] \notin IDs(train) \cup IDs(test)

(* C18: a second run of the asset-identifier split on the same data that   *)
(* differs from the first in lookback only yields the same train and test. *)
C18_LookbackIgnoredByAssetSplit ==
    (run = 2 /\ pc = "split" /\ ~cfg.time_split) =>
        /\ train = prev.train
        /\ test = prev.test

(* Both runs split by asset, on data that the time split would have split  *)
(* differently under the two values of lookback.                           *)
C18_Witness ==
    /\ run = 2
    /\ pc = "split"
    /\ ~cfg.time_split
    /\ IDs(train) # {}
    /\ IDs(test) # {}
    /\ \E m \in Machines : 1 \in CyclesOf(train, m)
    /\ time_train(data, cfg.test_size, 0) # time_train(data, cfg.test_size, 1)

LabelledAsDocumented(df, Y, w) ==
    \A i \in 1..Len(df.rows) :
        Y[i] = IF df.rows[i]["rul"] # NaN /\ df.rows[i]["rul"] <= w
               THEN df.rows[i]["failure"] ELSE ""

(* C19: the labels are those of the notebook's text: L_i = F_i, the        *)
(* failure that ends the sequence, when rul_i <= w, and the empty label    *)
(* otherwise.                                                              *)
C19_LabelledAsDocumented ==
    pc = "labelled" =>
        /\ LabelledAsDocumented(train, Y_train, cfg.w)
        /\ LabelledAsDocumented(test, Y_test, cfg.w)

(* The records that the pre-filter takes out of what was read. *)
Removed == IDs(combined_df) \ IDs(prefilter(combined_df, cfg.w))

(* C20: whichever way the data is split, no record that the pre-filter     *)
(* removes from the records read is a record of train or of test.          *)
C20_SplitSeesFilteredData ==
    pc \in AfterSplit => (IDs(train) \cup IDs(test)) \cap Removed = {}

(* A time split of a data set out of which the pre-filter took records;   *)
(* the exclusion took further records out of train.                        *)
C20_Witness ==
    /\ pc = "split"
    /\ cfg.time_split
    /\ Removed # {}
    /\ IDs(train) # {}
    /\ IDs(test) # {}
    /\ IDs(train) \cup IDs(test) # IDs(data)

DataKept == pc = "prefiltered" => data' = data

(* C21: the split leaves the data set it is handed as it was: the same     *)
(* records, columns and index, in the same order.                          *)
C21_SplitKeepsItsInput == [][DataKept]_vars

Ascending(df) ==
    \A i, j \in 1..Len(df.rows) :
        i < j => df.rows[i]["entryID"] < df.rows[j]["entryID"]

(* C22: the time split cuts the data set, sorted by entryID, at one point: *)
(* every train entryID is below every test entryID; test is the tail of    *)
(* the sorted data set, whole (ceil(test_size * n) records, in order);     *)
(* train is taken from the records before the cut.                         *)
C22_TimeSplitCutsSortedData ==
    (pc = "split" /\ cfg.time_split) =>
        /\ \A a \in IDs(train), b \in IDs(test) : a < b
        /\ \A b \in IDs(test), x \in IDs(data) : x > b => x \in IDs(test)
        /\ Cardinality(IDs(test)) = Len(test.rows)
        /\ Len(test.rows) * cfg.test_size[2]
              >= Len(data.rows) * cfg.test_size[1]
        /\ (Len(test.rows) - 1) * cfg.test_size[2]
              < Len(data.rows) * cfg.test_size[1]
        /\ Ascending(test) /\ Ascending(train)
        /\ IDs(train) \subseteq IDs(data) \ IDs(test)

(* The records were read in descending entryID order, both sides hold      *)
(* records and the exclusion took a record out of train.                   *)
C22_Witness ==
    /\ pc = "split"
    /\ cfg.time_split
    /\ Len(combined_df.rows) = MaxRecords
    /\ combined_df.rows[1]["entryID"] > combined_df.rows[2]["entryID"]
    /\ IDs(train) # {}
    /\ IDs(test) # {}
    /\ IDs(train) \cup IDs(test) # IDs(data)

(* The records of machine m before the cut: those that are not in test. *)
Candidates(m) ==
    {data.rows[i]["entryID"] :
        i \in {j \in 1..Len(data.rows) :
                  /\ data.rows[j]["machineID"] = m
                  /\ data.rows[j]["entryID"] \notin IDs(test)}}

(* C23: the time split keeps in train every record before the cut of a     *)
(* machine that has no record in test, so the exclusion removes records of *)
(* machines present in test only.                                          *)
C23_AbsentMachinesUntouched ==
    (pc = "split" /\ cfg.time_split) =>
        \A m \in MachinesOf(data) \ MachinesOf(test) :
            /\ Candidates(m) \subseteq IDs(train)
            /\ \A i \in 1..Len(data.rows) :
                  data.rows[i]["machineID"] = m
                  => \E j \in 1..Len(train.rows) : train.rows[j] = data.rows[i]

(* A machine without test records kept its record while a machine with a   *)
(* test record lost one.                                                   *)
C23_Witness ==
    /\ pc = "split"
    /\ cfg.time_split
    /\ MachinesOf(data) \ MachinesOf(test) # {}
    /\ \E m \in MachinesOf(test) : Candidates(m) \ IDs(train) # {}

(* Within every machine the cycles are distinct consecutive integers that  *)
(* increase with entryID.                                                  *)
ConsecutiveCycles ==
    \A i, j \in 1..Len(data.rows) :
        (/\ data.rows[i]["machineID"] = data.rows[j]["machineID"]
         /\ data.rows[i]["entryID"] < data.rows[j]["entryID"])
        => data.rows[j]["cycle"] - data.rows[i]["cycle"]
              = Cardinality({k \in 1..Len(data.rows) :
                    /\ data.rows[k]["machineID"] = data.rows[i]["machineID"]
                    /\ data.rows[i]["entryID"] < data.rows[k]["entryID"]
                    /\ data.rows[k]["entryID"] <= data.rows[j]["entryID"]})

(* C24: when the cycles of every machine are consecutive, the time split   *)
(* removes from train, for every machine present in test, exactly the      *)
(* lookback records that come last before the cut (all of the machine's    *)
(* records before the cut when there are fewer).                           *)
C24_ExactlyLookbackRemoved ==
    (pc = "split" /\ cfg.time_split /\ ConsecutiveCycles) =>
        \A m \in MachinesOf(test) :
            LET gone == Candidates(m) \ IDs(train)
            IN  /\ Cardinality(gone)
                      = Min({cfg.lookback, Cardinality(Candidates(m))})
                /\ \A r \in gone, k \in Candidates(m) \ gone : k < r

(* A machine with two records before the cut lost the later one. *)
C24_Witness ==
    /\ pc = "split"
    /\ cfg.time_split
    /\ ConsecutiveCycles
    /\ cfg.lookback = 1
    /\ \E m \in MachinesOf(test) :
          /\ Cardinality(Candidates(m)) = 2
          /\ Cardinality(Candidates(m) \cap IDs(train)) = 1

(* C25: every record with a rul (a record of a sequence that leads up to a *)
(* failure) that was read is still in the data set after the pre-filter.   *)
C25_FailingRunsKept ==
    pc = "prefiltered" =>
        \A i \in 1..Len(combined_df.rows) :
            combined_df.rows[i]["rul"] # NaN
            => combined_df.rows[i]["entryID"] \in IDs(data)

(* C26: a second run of the split cell on the same data set succeeds and   *)
(* yields what a first run with its configuration yields: the partitions   *)
(* of the first run when the configuration is the same, those of a first   *)
(* run with the other strategy when time_split was switched.               *)
C26_SplitRepeatable ==
    (run = 2 /\ pc \in {"split", "aborted"}) =>
        LET fresh == prefilter(combined_df, cfg.w)
            n == Len(unique_assets(fresh))
        IN  /\ pc = "split"
            /\ IF cfg = prev.cfg
               THEN train = prev.train /\ test = prev.test
               ELSE IF cfg.time_split
               THEN /\ train = time_train(fresh, cfg.test_size, cfg.lookback)
                    /\ test = time_test(fresh, cfg.test_size)
               ELSE \E p \in Perms(n) :
                       /\ train = asset_train(fresh, p, cfg.test_size)
                       /\ test = asset_test(fresh, p, cfg.test_size)

(* C27: when a run has ended, model.pkl is not on storage without          *)
(* sample.json being there too.                                            *)
C27_ArtifactsWrittenTogether ==
    pc \in {"sampled", "aborted"} => (model_pkl # {} => sample_json # {})

(* C28: the asset-identifier split deals every record of the data set to   *)
(* train or to test, once.                                                 *)
C28_AssetSplitLosesNothing ==
    (pc = "split" /\ ~cfg.time_split) =>
        /\ IDs(train) \cup IDs(test) = IDs(data)
        /\ IDs(train) \cap IDs(test) = {}
        /\ Len(train.rows) + Len(test.rows) = Len(data.rows)
        /\ \A i \in 1..Len(data.rows) :
              \/ \E j \in 1..Len(train.rows) : train.rows[j] = data.rows[i]
              \/ \E j \in 1..Len(test.rows) : test.rows[j] = data.rows[i]

(* One machine with one record went to test, the other with the rest of   *)
(* the records, read in descending entryID order, to train.                *)
C28_Witness ==
    /\ pc = "split"
    /\ ~cfg.time_split
    /\ Len(data.rows) = MaxRecords
    /\ data.rows[1]["entryID"] > data.rows[2]["entryID"]
    /\ Len(test.rows) = 1
    /\ Len(train.rows) = MaxRecords - 1

SubFrame(a, b) ==
    \A i \in 1..Len(a.rows) : \E j \in 1..Len(b.rows) : b.rows[j] = a.rows[i]

(* C29: of two time splits of the same data set with the same test_size,   *)
(* the one with the larger lookback has the same test set and a train set  *)
(* that is a part of the other's.                                          *)
C29_MonotoneInLookback ==
    (run = 2 /\ pc = "split" /\ cfg.time_split) =>
        /\ test = prev.test
        /\ prev.cfg.lookback <= cfg.lookback => SubFrame(train, prev.train)
        /\ cfg.lookback <= prev.cfg.lookback => SubFrame(prev.train, train)

(* The larger lookback took a record out of train and left one in. *)
C29_Witness ==
    /\ run = 2
    /\ pc = "split"
    /\ cfg.time_split
    /\ prev.cfg.lookback < cfg.lookback
    /\ IDs(train) # {}
    /\ IDs(train) # IDs(prev.train)

====
